---- MODULE Spec2Model ----
(***************************************************************************)
(* Model of the restaurant_booking program (src/pages/solana-code.rs).     *)
(*                                                                         *)
(* The ledger is a map from derived addresses to accounts.  An instruction *)
(* is (1) the validation of its accounts struct (#[derive(Accounts)]:      *)
(* init, init_if_needed, mut + seeds), (2) the handler of the #[program]   *)
(* module acting on the accounts of the running instruction, and (3) the   *)
(* host's commit: the changes of an instruction that returns Ok(()) are    *)
(* kept, those of an instruction that returns an error are discarded.      *)
(* Each invocation is one atomic step.                                     *)
(***************************************************************************)
EXTENDS Integers, Sequences, FiniteSets

\* ------------------------------------------------------------------ bounds
\* Largest visit_count / count the model lets a counter reach.
MaxCount == 2
\* Longest list of remaining accounts handed to book_table.
MaxAux == 3
\* Byte length of the short texts (names and reviews under the capacity).
ShortLen == 2

\* ------------------------------------------------------- program constants
\* Capacity of DishStats.name_data.
NameCap == 50
\* Capacity of Review.review_data.
ReviewCap == 200
\* rating is accepted in RatingMin..RatingMax.
RatingMin == 1
RatingMax == 5
\* confidence_level is accepted in ConfidenceMin..ConfidenceMax.
ConfidenceMin == 1
ConfidenceMax == 10

\* --------------------------------------------------------------- identities
Users == {"A", "B"}
Restaurants == {"R"}
Dishes == {"D"}
\* Pubkey::default(), the value of the identity fields of a zeroed account.
DefaultPubkey == "0"

\* seeds = [b"user-stats", user, restaurant]
UserStatsKey(user, restaurant) == <<"user-stats", user, restaurant>>
\* seeds = [b"dish-stats", user, dish]
DishStatsKey(user, dish) == <<"dish-stats", user, dish>>
\* seeds = [b"review", user, restaurant]
ReviewKey(user, restaurant) == <<"review", user, restaurant>>

UserStatsKeys == {UserStatsKey(u, r) : u \in Users, r \in Restaurants}
DishStatsKeys == {DishStatsKey(u, d) : u \in Users, d \in Dishes}
ReviewKeys == {ReviewKey(u, r) : u \in Users, r \in Restaurants}
Keys == UserStatsKeys \cup DishStatsKeys \cup ReviewKeys

\* ------------------------------------------------------------------ helpers
Min(a, b) == IF a <= b THEN a ELSE b

\* A text of n non-zero bytes (String::as_bytes of an n-byte string).
Text(n) == [i \in 1..n |-> 1 + (i % 7)]

\* [0u8; cap] followed by buf[..len].copy_from_slice(&bytes[..len]).
CopyToBuf(bytes, len, cap) == [i \in 1..cap |-> IF i <= len THEN bytes[i] ELSE 0]

\* The outcome of a validation or of a handler: the result and the accounts
\* of the running instruction.
Ok(acc) == [res |-> "Ok", accounts |-> acc]
Err(e, acc) == [res |-> e, accounts |-> acc]

\* ----------------------------------------------------------------- accounts
\* An address that holds no account (no data, no discriminator).
NoAccount == [disc |-> "None"]

\* #[account] pub struct UserStats
UserStats(user, restaurant, visit_count) ==
    [disc |-> "UserStats", user |-> user, restaurant |-> restaurant,
     visit_count |-> visit_count]

\* #[account] pub struct DishStats
DishStats(user, dish, count, name_len, name_data) ==
    [disc |-> "DishStats", user |-> user, dish |-> dish, count |-> count,
     name_len |-> name_len, name_data |-> name_data]

\* #[account] pub struct Review
Review(user, restaurant, rating, review_len, review_data, confidence_level) ==
    [disc |-> "Review", user |-> user, restaurant |-> restaurant,
     rating |-> rating, review_len |-> review_len, review_data |-> review_data,
     confidence_level |-> confidence_level]

\* The account an `init` / `init_if_needed` constraint creates: all fields zero.
ZeroUserStats == UserStats(DefaultPubkey, DefaultPubkey, 0)
ZeroDishStats == DishStats(DefaultPubkey, DefaultPubkey, 0, 0, CopyToBuf(<<>>, 0, NameCap))
ZeroReview == Review(DefaultPubkey, DefaultPubkey, 0, 0, CopyToBuf(<<>>, 0, ReviewCap), 0)

\* ------------------------------------------------------------------- inputs
\* name: String of initialize_dish_stats: under, at and over the capacity.
Names == {Text(ShortLen), Text(NameCap), Text(NameCap + 1)}
\* review: String of submit_review: empty, under, at and over the capacity.
Reviews == {Text(0), Text(ShortLen), Text(ReviewCap), Text(ReviewCap + 1)}
\* rating: u8, around both ends of the accepted range.
Ratings == {RatingMin - 1, RatingMin, RatingMax, RatingMax + 1}
\* confidence_level: u8, around both ends of the accepted range.
Confidences == {ConfidenceMin - 1, ConfidenceMin, ConfidenceMax, ConfidenceMax + 1}
\* _dish_ids: Vec<Pubkey>.
DishIdLists == {<<>>} \cup {<<d>> : d \in Dishes}
\* ctx.remaining_accounts: any addresses, DishStats or not, initialized or not.
AuxRefs == DishStatsKeys \cup {UserStatsKey("A", "R")}
AuxLists == UNION {[1..n -> AuxRefs] : n \in 0..MaxAux}
\* The remaining accounts of the specifications that study another instruction.
ShortAuxLists == {<<>>} \cup {<<k>> : k \in DishStatsKeys}

VARIABLES
    accounts,   \* the ledger: derived address -> account
    tx,         \* the invocation the host has executed and not yet answered:
                \* its instruction (op), signer and arguments (call), its
                \* result (res) and the ledger it ran on (before); NoTx
                \* between invocations,
    calls       \* the tally of the successful book_table invocations so far:
                \* per UserStats address how many there were (visits), per
                \* DishStats address how many of their even positions
                \* referenced it (refs)

vars == <<accounts, tx, calls>>

\* The 1-based positions of remaining_accounts that the loop of book_table
\* visits (0-based 0, 2, 4, ...) and that reference the address k.
EvenRefs(aux, k) == {i \in 1..Len(aux) : i % 2 = 1 /\ aux[i] = k}

\* ------------------------------------------------------ account validation
\* Mutant: init_if_needed in place of init (an occupied address is loaded).
InitializeUserStats_IfNeeded(acc, user, restaurant) ==
    LET k == UserStatsKey(user, restaurant) IN
    IF acc[k] = NoAccount
    THEN Ok([acc EXCEPT ![k] = ZeroUserStats])
    ELSE Ok(acc)

\* #[account(init, seeds = [b"user-stats", user, restaurant])]: the address must
\* be unoccupied; the account is created zeroed.
InitializeUserStats(acc, user, restaurant) ==
    LET k == UserStatsKey(user, restaurant) IN
    IF acc[k] # NoAccount
    THEN Err("AlreadyInitialized", acc)
    ELSE Ok([acc EXCEPT ![k] = ZeroUserStats])

\* Mutant: init_if_needed in place of init (an occupied address is loaded).
InitializeDishStats_IfNeeded(acc, user, dish) ==
    LET k == DishStatsKey(user, dish) IN
    IF acc[k] = NoAccount
    THEN Ok([acc EXCEPT ![k] = ZeroDishStats])
    ELSE Ok(acc)

\* #[account(init, seeds = [b"dish-stats", user, dish])]
InitializeDishStats(acc, user, dish) ==
    LET k == DishStatsKey(user, dish) IN
    IF acc[k] # NoAccount
    THEN Err("AlreadyInitialized", acc)
    ELSE Ok([acc EXCEPT ![k] = ZeroDishStats])

\* Mutant: init_if_needed in place of mut (an unoccupied address is created).
BookTable_IfNeeded(acc, user, restaurant) ==
    LET k == UserStatsKey(user, restaurant) IN
    IF acc[k] = NoAccount
    THEN Ok([acc EXCEPT ![k] = ZeroUserStats])
    ELSE Ok(acc)

\* #[account(mut, seeds = [b"user-stats", user, restaurant])]: the account must
\* exist; nothing is created.
BookTable(acc, user, restaurant) ==
    LET k == UserStatsKey(user, restaurant) IN
    IF acc[k] = NoAccount
    THEN Err("NotFound", acc)
    ELSE Ok(acc)

\* Mutant: mut in place of init_if_needed (the account must already exist).
SubmitReview_MustExist(acc, user, restaurant) ==
    LET k == ReviewKey(user, restaurant) IN
    IF acc[k] = NoAccount
    THEN Err("NotFound", acc)
    ELSE Ok(acc)

\* #[account(init_if_needed, seeds = [b"review", user, restaurant])]: an
\* unoccupied address gets a zeroed account, an occupied one is loaded.
SubmitReview(acc, user, restaurant) ==
    LET k == ReviewKey(user, restaurant) IN
    IF acc[k] = NoAccount
    THEN Ok([acc EXCEPT ![k] = ZeroReview])
    ELSE Ok(acc)

\* ----------------------------------------------------------------- handlers
\* pub fn initialize_user_stats
initialize_user_stats(acc, user, restaurant) ==
    LET k == UserStatsKey(user, restaurant) IN
    Ok([acc EXCEPT ![k].user = user,
                   ![k].restaurant = restaurant,
                   ![k].visit_count = 0])

\* Mutant: name_len is the length of the name, not capped at the capacity.
initialize_dish_stats_NoCap(acc, user, dish, name) ==
    LET k == DishStatsKey(user, dish)
        name_len == Len(name)
    IN Ok([acc EXCEPT ![k].user = user,
                      ![k].dish = dish,
                      ![k].count = 0,
                      ![k].name_len = name_len,
                      ![k].name_data = CopyToBuf(name, name_len, NameCap)])

\* Mutant: the dish field is never assigned and keeps its zero value.
initialize_dish_stats_NoDish(acc, user, dish, name) ==
    LET k == DishStatsKey(user, dish)
        name_len == Min(Len(name), NameCap)
    IN Ok([acc EXCEPT ![k].user = user,
                      ![k].count = 0,
                      ![k].name_len = name_len,
                      ![k].name_data = CopyToBuf(name, name_len, NameCap)])

\* pub fn initialize_dish_stats
initialize_dish_stats(acc, user, dish, name) ==
    LET k == DishStatsKey(user, dish)
        name_len == Min(Len(name), NameCap)
    IN Ok([acc EXCEPT ![k].user = user,
                      ![k].dish = dish,
                      ![k].count = 0,
                      ![k].name_len = name_len,
                      ![k].name_data = CopyToBuf(name, name_len, NameCap)])

\* The loop of book_table over remaining_accounts, from 0-based index i - 1 in
\* steps of two: deserialize as DishStats (fails on an account without data or
\* of another type), add one to count, serialize back into the account.
RECURSIVE book_table_loop(_, _, _)
book_table_loop(acc, remaining_accounts, i) ==
    IF i > Len(remaining_accounts)
    THEN Ok(acc)
    ELSE LET dish_stats_info == remaining_accounts[i] IN
         IF acc[dish_stats_info].disc = "None"
         THEN Err("AccountDiscriminatorNotFound", acc)
         ELSE IF acc[dish_stats_info].disc # "DishStats"
         THEN Err("AccountDiscriminatorMismatch", acc)
         ELSE book_table_loop([acc EXCEPT ![dish_stats_info].count = @ + 1],
                              remaining_accounts, i + 2)

\* Mutant: the loop visits every index (step_by(1)).
RECURSIVE book_table_loop_EveryIndex(_, _, _)
book_table_loop_EveryIndex(acc, remaining_accounts, i) ==
    IF i > Len(remaining_accounts)
    THEN Ok(acc)
    ELSE LET dish_stats_info == remaining_accounts[i] IN
         IF acc[dish_stats_info].disc = "None"
         THEN Err("AccountDiscriminatorNotFound", acc)
         ELSE IF acc[dish_stats_info].disc # "DishStats"
         THEN Err("AccountDiscriminatorMismatch", acc)
         ELSE book_table_loop_EveryIndex(
                  [acc EXCEPT ![dish_stats_info].count = @ + 1],
                  remaining_accounts, i + 1)

book_table_EveryIndex(acc, user, restaurant, dish_ids, remaining_accounts) ==
    LET k == UserStatsKey(user, restaurant) IN
    book_table_loop_EveryIndex([acc EXCEPT ![k].visit_count = @ + 1],
                               remaining_accounts, 1)

\* Mutant: an account that does not deserialize as DishStats is skipped
\* (`continue`) instead of failing the call (`?`).
RECURSIVE book_table_loop_SkipInvalid(_, _, _)
book_table_loop_SkipInvalid(acc, remaining_accounts, i) ==
    IF i > Len(remaining_accounts)
    THEN Ok(acc)
    ELSE LET dish_stats_info == remaining_accounts[i] IN
         IF acc[dish_stats_info].disc # "DishStats"
         THEN book_table_loop_SkipInvalid(acc, remaining_accounts, i + 2)
         ELSE book_table_loop_SkipInvalid(
                  [acc EXCEPT ![dish_stats_info].count = @ + 1],
                  remaining_accounts, i + 2)

book_table_SkipInvalid(acc, user, restaurant, dish_ids, remaining_accounts) ==
    LET k == UserStatsKey(user, restaurant) IN
    book_table_loop_SkipInvalid([acc EXCEPT ![k].visit_count = @ + 1],
                                remaining_accounts, 1)

\* Mutant: a DishStats record of another user than the signer is refused.
RECURSIVE book_table_loop_OwnerOnly(_, _, _, _)
book_table_loop_OwnerOnly(acc, user, remaining_accounts, i) ==
    IF i > Len(remaining_accounts)
    THEN Ok(acc)
    ELSE LET dish_stats_info == remaining_accounts[i] IN
         IF acc[dish_stats_info].disc = "None"
         THEN Err("AccountDiscriminatorNotFound", acc)
         ELSE IF acc[dish_stats_info].disc # "DishStats"
         THEN Err("AccountDiscriminatorMismatch", acc)
         ELSE IF acc[dish_stats_info].user # user
         THEN Err("ConstraintHasOne", acc)
         ELSE book_table_loop_OwnerOnly(
                  [acc EXCEPT ![dish_stats_info].count = @ + 1],
                  user, remaining_accounts, i + 2)

book_table_OwnerOnly(acc, user, restaurant, dish_ids, remaining_accounts) ==
    LET k == UserStatsKey(user, restaurant) IN
    book_table_loop_OwnerOnly([acc EXCEPT ![k].visit_count = @ + 1],
                              user, remaining_accounts, 1)

\* Mutant: an address without an account is given a fresh DishStats record
\* (count starting at 0) instead of failing the call.
RECURSIVE book_table_loop_CreateMissing(_, _, _)
book_table_loop_CreateMissing(acc, remaining_accounts, i) ==
    IF i > Len(remaining_accounts)
    THEN Ok(acc)
    ELSE LET dish_stats_info == remaining_accounts[i] IN
         IF acc[dish_stats_info].disc = "None"
         THEN book_table_loop_CreateMissing(
                  [acc EXCEPT ![dish_stats_info] = [ZeroDishStats EXCEPT !.count = 1]],
                  remaining_accounts, i + 2)
         ELSE IF acc[dish_stats_info].disc # "DishStats"
         THEN Err("AccountDiscriminatorMismatch", acc)
         ELSE book_table_loop_CreateMissing(
                  [acc EXCEPT ![dish_stats_info].count = @ + 1],
                  remaining_accounts, i + 2)

book_table_CreateMissing(acc, user, restaurant, dish_ids, remaining_accounts) ==
    LET k == UserStatsKey(user, restaurant) IN
    book_table_loop_CreateMissing([acc EXCEPT ![k].visit_count = @ + 1],
                                  remaining_accounts, 1)

\* Mutant: every iteration adds one to the count the record had when the call
\* began (the records are deserialized once, before the loop), so the second
\* write of a record overwrites the first.
RECURSIVE book_table_loop_StaleRead(_, _, _, _)
book_table_loop_StaleRead(acc, orig, remaining_accounts, i) ==
    IF i > Len(remaining_accounts)
    THEN Ok(acc)
    ELSE LET dish_stats_info == remaining_accounts[i] IN
         IF acc[dish_stats_info].disc = "None"
         THEN Err("AccountDiscriminatorNotFound", acc)
         ELSE IF acc[dish_stats_info].disc # "DishStats"
         THEN Err("AccountDiscriminatorMismatch", acc)
         ELSE book_table_loop_StaleRead(
                  [acc EXCEPT ![dish_stats_info].count = orig[dish_stats_info].count + 1],
                  orig, remaining_accounts, i + 2)

book_table_StaleRead(acc, user, restaurant, dish_ids, remaining_accounts) ==
    LET k == UserStatsKey(user, restaurant) IN
    book_table_loop_StaleRead([acc EXCEPT ![k].visit_count = @ + 1], acc,
                              remaining_accounts, 1)

\* Mutant: a record referenced at several even positions is incremented once
\* (the references are de-duplicated first).
RECURSIVE book_table_loop_Dedup(_, _, _)
book_table_loop_Dedup(acc, remaining_accounts, i) ==
    IF i > Len(remaining_accounts)
    THEN Ok(acc)
    ELSE LET dish_stats_info == remaining_accounts[i] IN
         IF acc[dish_stats_info].disc = "None"
         THEN Err("AccountDiscriminatorNotFound", acc)
         ELSE IF acc[dish_stats_info].disc # "DishStats"
         THEN Err("AccountDiscriminatorMismatch", acc)
         ELSE IF \E j \in 1..(i - 1) : j % 2 = 1 /\ remaining_accounts[j] = dish_stats_info
         THEN book_table_loop_Dedup(acc, remaining_accounts, i + 2)
         ELSE book_table_loop_Dedup([acc EXCEPT ![dish_stats_info].count = @ + 1],
                                    remaining_accounts, i + 2)

book_table_Dedup(acc, user, restaurant, dish_ids, remaining_accounts) ==
    LET k == UserStatsKey(user, restaurant) IN
    book_table_loop_Dedup([acc EXCEPT ![k].visit_count = @ + 1],
                          remaining_accounts, 1)

book_table(acc, user, restaurant, dish_ids, remaining_accounts) ==
    LET k == UserStatsKey(user, restaurant) IN
    book_table_loop([acc EXCEPT ![k].visit_count = @ + 1], remaining_accounts, 1)

\* Mutant: the write-once guard is missing.
submit_review_NoGuard(acc, user, restaurant, rating, review, confidence_level) ==
    LET k == ReviewKey(user, restaurant)
        len == Min(Len(review), ReviewCap)
    IN
    IF ~(rating >= RatingMin /\ rating <= RatingMax)
    THEN Err("InvalidRating", acc)
    ELSE IF ~(confidence_level >= ConfidenceMin /\ confidence_level <= ConfidenceMax)
    THEN Err("InvalidConfidenceLevel", acc)
    ELSE Ok([acc EXCEPT ![k].user = user,
                        ![k].restaurant = restaurant,
                        ![k].rating = rating,
                        ![k].confidence_level = confidence_level,
                        ![k].review_len = len,
                        ![k].review_data = CopyToBuf(review, len, ReviewCap)])

\* Mutant: the lower ends of the ranges are not checked (rating <= 5 only,
\* confidence_level <= 10 only).
submit_review_NoLowerBound(acc, user, restaurant, rating, review, confidence_level) ==
    LET k == ReviewKey(user, restaurant)
        len == Min(Len(review), ReviewCap)
    IN
    IF ~(rating <= RatingMax)
    THEN Err("InvalidRating", acc)
    ELSE IF ~(confidence_level <= ConfidenceMax)
    THEN Err("InvalidConfidenceLevel", acc)
    ELSE IF acc[k].review_len > 0
    THEN Err("ReviewAlreadyExists", acc)
    ELSE Ok([acc EXCEPT ![k].user = user,
                        ![k].restaurant = restaurant,
                        ![k].rating = rating,
                        ![k].confidence_level = confidence_level,
                        ![k].review_len = len,
                        ![k].review_data = CopyToBuf(review, len, ReviewCap)])

\* Mutant: review_len is the length of the text, not capped at the capacity.
submit_review_NoCap(acc, user, restaurant, rating, review, confidence_level) ==
    LET k == ReviewKey(user, restaurant)
        len == Len(review)
    IN
    IF ~(rating >= RatingMin /\ rating <= RatingMax)
    THEN Err("InvalidRating", acc)
    ELSE IF ~(confidence_level >= ConfidenceMin /\ confidence_level <= ConfidenceMax)
    THEN Err("InvalidConfidenceLevel", acc)
    ELSE IF acc[k].review_len > 0
    THEN Err("ReviewAlreadyExists", acc)
    ELSE Ok([acc EXCEPT ![k].user = user,
                        ![k].restaurant = restaurant,
                        ![k].rating = rating,
                        ![k].confidence_level = confidence_level,
                        ![k].review_len = len,
                        ![k].review_data = CopyToBuf(review, len, ReviewCap)])

\* Mutant: the write-once guard engages once the record has been written (its
\* rating is set), whatever the length of the stored text.
submit_review_GuardWritten(acc, user, restaurant, rating, review, confidence_level) ==
    LET k == ReviewKey(user, restaurant)
        len == Min(Len(review), ReviewCap)
    IN
    IF ~(rating >= RatingMin /\ rating <= RatingMax)
    THEN Err("InvalidRating", acc)
    ELSE IF ~(confidence_level >= ConfidenceMin /\ confidence_level <= ConfidenceMax)
    THEN Err("InvalidConfidenceLevel", acc)
    ELSE IF acc[k].rating > 0
    THEN Err("ReviewAlreadyExists", acc)
    ELSE Ok([acc EXCEPT ![k].user = user,
                        ![k].restaurant = restaurant,
                        ![k].rating = rating,
                        ![k].confidence_level = confidence_level,
                        ![k].review_len = len,
                        ![k].review_data = CopyToBuf(review, len, ReviewCap)])

\* Mutant: the write-once guard comes before the checks of the inputs.
submit_review_GuardFirst(acc, user, restaurant, rating, review, confidence_level) ==
    LET k == ReviewKey(user, restaurant)
        len == Min(Len(review), ReviewCap)
    IN
    IF acc[k].review_len > 0
    THEN Err("ReviewAlreadyExists", acc)
    ELSE IF ~(rating >= RatingMin /\ rating <= RatingMax)
    THEN Err("InvalidRating", acc)
    ELSE IF ~(confidence_level >= ConfidenceMin /\ confidence_level <= ConfidenceMax)
    THEN Err("InvalidConfidenceLevel", acc)
    ELSE Ok([acc EXCEPT ![k].user = user,
                        ![k].restaurant = restaurant,
                        ![k].rating = rating,
                        ![k].confidence_level = confidence_level,
                        ![k].review_len = len,
                        ![k].review_data = CopyToBuf(review, len, ReviewCap)])

\* Mutant: confidence_level is checked against its lower bound only.
submit_review_NoUpperBound(acc, user, restaurant, rating, review, confidence_level) ==
    LET k == ReviewKey(user, restaurant)
        len == Min(Len(review), ReviewCap)
    IN
    IF ~(rating >= RatingMin /\ rating <= RatingMax)
    THEN Err("InvalidRating", acc)
    ELSE IF ~(confidence_level >= ConfidenceMin)
    THEN Err("InvalidConfidenceLevel", acc)
    ELSE IF acc[k].review_len > 0
    THEN Err("ReviewAlreadyExists", acc)
    ELSE Ok([acc EXCEPT ![k].user = user,
                        ![k].restaurant = restaurant,
                        ![k].rating = rating,
                        ![k].confidence_level = confidence_level,
                        ![k].review_len = len,
                        ![k].review_data = CopyToBuf(review, len, ReviewCap)])

\* pub fn submit_review
submit_review(acc, user, restaurant, rating, review, confidence_level) ==
    LET k == ReviewKey(user, restaurant)
        len == Min(Len(review), ReviewCap)
    IN
    IF ~(rating >= RatingMin /\ rating <= RatingMax)
    THEN Err("InvalidRating", acc)
    ELSE IF ~(confidence_level >= ConfidenceMin /\ confidence_level <= ConfidenceMax)
    THEN Err("InvalidConfidenceLevel", acc)
    ELSE IF acc[k].review_len > 0
    THEN Err("ReviewAlreadyExists", acc)
    ELSE Ok([acc EXCEPT ![k].user = user,
                        ![k].restaurant = restaurant,
                        ![k].rating = rating,
                        ![k].confidence_level = confidence_level,
                        ![k].review_len = len,
                        ![k].review_data = CopyToBuf(review, len, ReviewCap)])

\* ------------------------------------------------------------- instructions
\* Validation, then the handler on the validated accounts.
Run(ctx, handled) == IF ctx.res = "Ok" THEN handled ELSE ctx

InitUserStatsOut(acc, user, restaurant) ==
    LET ctx == InitializeUserStats(acc, user, restaurant) IN
    Run(ctx, initialize_user_stats(ctx.accounts, user, restaurant))

InitDishStatsOut(acc, user, dish, name) ==
    LET ctx == InitializeDishStats(acc, user, dish) IN
    Run(ctx, initialize_dish_stats(ctx.accounts, user, dish, name))

BookTableOut(acc, user, restaurant, dish_ids, remaining_accounts) ==
    LET ctx == BookTable(acc, user, restaurant) IN
    Run(ctx, book_table(ctx.accounts, user, restaurant, dish_ids, remaining_accounts))

SubmitReviewOut(acc, user, restaurant, rating, review, confidence_level) ==
    LET ctx == SubmitReview(acc, user, restaurant) IN
    Run(ctx, submit_review(ctx.accounts, user, restaurant, rating, review,
                           confidence_level))

\* No invocation is awaiting its answer.
NoTx == [op |-> "none"]

\* The host runs one instruction at a time.
Idle == tx = NoTx

\* The tally after one more successful book_table invocation `call`.
Tally(t, call) ==
    [visits |-> [t.visits EXCEPT ![UserStatsKey(call.user, call.restaurant)] = @ + 1],
     refs |-> [k \in DishStatsKeys |->
                  t.refs[k] + Cardinality(EvenRefs(call.remaining_accounts, k))]]

\* The host keeps the account changes of
\* an instruction that returned Ok(()) and discards those of one that returned
\* an error; the caller gets the result.
Commit(op, call, out) ==
    /\ accounts' = IF out.res = "Ok" THEN out.accounts ELSE accounts
    /\ tx' = [op |-> op, call |-> call, res |-> out.res, before |-> accounts]
    /\ calls' = IF op = "book_table" /\ out.res = "Ok"
                THEN Tally(calls, call)
                ELSE calls

\* No counter of the resulting ledger is above the model's cap.
WithinCap(acc) ==
    \A k \in Keys :
        /\ acc[k].disc = "UserStats" => acc[k].visit_count <= MaxCount
        /\ acc[k].disc = "DishStats" => acc[k].count <= MaxCount

\* ------------------------------------------------------------------ actions
Init ==
    /\ accounts = [k \in Keys |-> NoAccount]
    /\ tx = NoTx
    /\ calls = [visits |-> [k \in UserStatsKeys |-> 0],
                refs |-> [k \in DishStatsKeys |-> 0]]

InitUserStats(user, restaurant) ==
    \E out \in {InitUserStatsOut(accounts, user, restaurant)} :
        Commit("initialize_user_stats",
               [user |-> user, restaurant |-> restaurant], out)

InitDishStats(user, dish, name) ==
    \E out \in {InitDishStatsOut(accounts, user, dish, name)} :
        Commit("initialize_dish_stats",
               [user |-> user, dish |-> dish, name |-> name], out)

BookTableCall(user, restaurant, dish_ids, remaining_accounts) ==
    \E out \in {BookTableOut(accounts, user, restaurant, dish_ids,
                             remaining_accounts)} :
        /\ out.res = "Ok" => WithinCap(out.accounts)
        /\ Commit("book_table",
                  [user |-> user, restaurant |-> restaurant, dish_ids |-> dish_ids,
                   remaining_accounts |-> remaining_accounts], out)

SubmitReviewCall(user, restaurant, rating, review, confidence_level) ==
    \E out \in {SubmitReviewOut(accounts, user, restaurant, rating, review,
                                confidence_level)} :
        Commit("submit_review",
               [user |-> user, restaurant |-> restaurant, rating |-> rating,
                review |-> review, confidence_level |-> confidence_level], out)

\* The caller has its result; the host is ready for the next invocation.
Return ==
    /\ tx # NoTx
    /\ tx' = NoTx
    /\ UNCHANGED <<accounts, calls>>

\* One invocation of any of the four instructions, with its signer and its
\* arguments drawn from the sets of `in`, or the answer to it.
NextOver(in) ==
    \/ /\ Idle
       /\ \E u \in in.visitors, r \in Restaurants : InitUserStats(u, r)
    \/ /\ Idle
       /\ \E u \in in.visitors, d \in Dishes, name \in in.names :
              InitDishStats(u, d, name)
    \/ /\ Idle
       /\ \E u \in in.visitors, r \in Restaurants, ids \in in.dish_ids,
             aux \in in.aux : BookTableCall(u, r, ids, aux)
    \/ /\ Idle
       /\ \E u \in in.reviewers, r \in Restaurants, rating \in in.ratings,
             review \in in.reviews, c \in in.confidences :
              SubmitReviewCall(u, r, rating, review, c)
    \/ Return

\* The whole program with the arguments of book_table drawn widely.
BookInputs ==
    [names |-> {Text(ShortLen)},
     visitors |-> Users, dish_ids |-> DishIdLists, aux |-> AuxLists,
     reviewers |-> {"A"}, ratings |-> {RatingMax}, reviews |-> {Text(ShortLen)},
     confidences |-> {ConfidenceMax}]

\* The whole program with the arguments of initialize_dish_stats drawn widely.
DishInputs ==
    [names |-> Names,
     visitors |-> Users, dish_ids |-> {<<>>}, aux |-> ShortAuxLists,
     reviewers |-> {"A"}, ratings |-> {RatingMax}, reviews |-> {Text(ShortLen)},
     confidences |-> {ConfidenceMax}]

\* The whole program with the arguments of submit_review drawn widely.
ReviewInputs ==
    [names |-> {Text(ShortLen)},
     visitors |-> {"A"}, dish_ids |-> {<<>>}, aux |-> ShortAuxLists,
     reviewers |-> Users, ratings |-> Ratings, reviews |-> Reviews,
     confidences |-> Confidences]

\* The whole program with the texts of initialize_dish_stats and the arguments
\* of submit_review drawn widely.
TextInputs ==
    [names |-> Names,
     visitors |-> {"A"}, dish_ids |-> {<<>>}, aux |-> ShortAuxLists,
     reviewers |-> {"A"}, ratings |-> Ratings, reviews |-> Reviews,
     confidences |-> Confidences]

NextBook == NextOver(BookInputs)
NextText == NextOver(TextInputs)
NextDish == NextOver(DishInputs)
NextReview == NextOver(ReviewInputs)

Spec == Init /\ [][NextBook]_vars
SpecDish == Init /\ [][NextDish]_vars
SpecReview == Init /\ [][NextReview]_vars
SpecText == Init /\ [][NextText]_vars

\* ------------------------------------------------------------------- claims
\* The visited positions whose reference is not a DishStats record of acc.
BadRefs(aux, acc) == {i \in 1..Len(aux) : i % 2 = 1 /\ acc[aux[i]].disc # "DishStats"}

\* The first n bytes of bytes followed by zero bytes up to cap.
Padded(bytes, n, cap) == SubSeq(bytes, 1, n) \o [i \in 1..(cap - n) |-> 0]

\* C1: InitUserStats on a pair without a UserStats record succeeds and creates
\* the record with visit_count = 0 (for that user and restaurant); on a pair
\* whose record exists it fails with AlreadyInitialized and changes nothing, so
\* a raised visit_count is never reset.
C1_InitUserStatsOnce ==
    tx.op = "initialize_user_stats" =>
        LET k == UserStatsKey(tx.call.user, tx.call.restaurant) IN
        IF tx.before[k] = NoAccount
        THEN /\ tx.res = "Ok"
             /\ accounts = [tx.before EXCEPT
                                ![k] = UserStats(tx.call.user, tx.call.restaurant, 0)]
        ELSE /\ tx.res = "AlreadyInitialized"
             /\ accounts = tx.before

\* C1 witness: a repeated InitUserStats was refused on a record whose
\* visit_count BookTable had raised.
C1_Witness ==
    /\ tx.op = "initialize_user_stats"
    /\ tx.res = "AlreadyInitialized"
    /\ accounts[UserStatsKey(tx.call.user, tx.call.restaurant)].visit_count > 0

\* C2: once a Review record has review_len > 0, every further SubmitReview
\* for its pair with rating in 1..5 and confidence_level in 1..10 fails with
\* ReviewAlreadyExists and leaves every stored record as it was.
C2_ReviewWriteOnce ==
    (/\ tx.op = "submit_review"
     /\ tx.call.rating \in 1..5
     /\ tx.call.confidence_level \in 1..10
     /\ tx.before[ReviewKey(tx.call.user, tx.call.restaurant)].disc = "Review"
     /\ tx.before[ReviewKey(tx.call.user, tx.call.restaurant)].review_len > 0)
    => /\ tx.res = "ReviewAlreadyExists"
       /\ accounts = tx.before

\* C2 witness: a second submission with another rating, confidence_level and
\* text than the stored ones was refused.
C2_Witness ==
    /\ tx.op = "submit_review"
    /\ tx.res = "ReviewAlreadyExists"
    /\ LET old == accounts[ReviewKey(tx.call.user, tx.call.restaurant)] IN
       /\ old.review_len > 0
       /\ old.rating # tx.call.rating
       /\ old.confidence_level # tx.call.confidence_level
       /\ old.review_len # Min(Len(tx.call.review), 200)

\* C3: SubmitReview with rating outside 1..5 fails with InvalidRating, and with
\* rating inside and confidence_level outside 1..10 fails with
\* InvalidConfidenceLevel; either way no record is created or changed.
C3_ReviewInputsRejected ==
    tx.op = "submit_review" =>
        /\ tx.call.rating \notin 1..5 =>
               tx.res = "InvalidRating" /\ accounts = tx.before
        /\ (tx.call.rating \in 1..5 /\ tx.call.confidence_level \notin 1..10) =>
               tx.res = "InvalidConfidenceLevel" /\ accounts = tx.before

\* C3 witness: a submission with a bad confidence_level was refused and its
\* pair still has no Review record.
C3_Witness ==
    /\ tx.op = "submit_review"
    /\ tx.res = "InvalidConfidenceLevel"
    /\ tx.call.confidence_level > 10
    /\ accounts[ReviewKey(tx.call.user, tx.call.restaurant)] = NoAccount

\* C4: a successful BookTable adds exactly 1 to the visit_count of its pair and
\* adds to the count of each DishStats record 1 per even position of the
\* auxiliary list that references it, whatever dish_ids holds; no other record
\* changes.
C4_BookTableCounts ==
    (tx.op = "book_table" /\ tx.res = "Ok") =>
        \A k \in Keys :
            accounts[k] =
                IF k = UserStatsKey(tx.call.user, tx.call.restaurant)
                THEN [tx.before[k] EXCEPT !.visit_count = tx.before[k].visit_count + 1]
                ELSE IF EvenRefs(tx.call.remaining_accounts, k) # {}
                THEN [tx.before[k] EXCEPT
                         !.count = tx.before[k].count
                                   + Cardinality(EvenRefs(tx.call.remaining_accounts, k))]
                ELSE tx.before[k]

\* C4 witness: a successful BookTable with empty dish_ids and two different
\* DishStats records at the even positions 0 and 2.
C4_Witness ==
    /\ tx.op = "book_table"
    /\ tx.res = "Ok"
    /\ tx.call.dish_ids = <<>>
    /\ Len(tx.call.remaining_accounts) = 3
    /\ tx.call.remaining_accounts[1] # tx.call.remaining_accounts[3]

C6_BookTableNeedsUserStats ==
    (/\ tx.op = "book_table"
     /\ tx.before[UserStatsKey(tx.call.user, tx.call.restaurant)] = NoAccount)
    => /\ tx.res = "NotFound"
       /\ accounts = tx.before

\* C6 witness: BookTable without UserStats failed although position 0 of its
\* auxiliary list references an initialized DishStats record.
C6_Witness ==
    /\ tx.op = "book_table"
    /\ tx.res = "NotFound"
    /\ Len(tx.call.remaining_accounts) > 0
    /\ accounts[tx.call.remaining_accounts[1]].disc = "DishStats"

\* C7: InitDishStats on an unoccupied (user, dish) succeeds whatever the name
\* and stores count = 0, name_len = min(byte length of name, 50) and name_data
\* = the first name_len bytes of name followed by zero bytes up to 50; a longer
\* name is truncated, never rejected.
C7_DishNameTruncated ==
    (/\ tx.op = "initialize_dish_stats"
     /\ tx.before[DishStatsKey(tx.call.user, tx.call.dish)] = NoAccount)
    => LET stored == accounts[DishStatsKey(tx.call.user, tx.call.dish)]
           n == IF Len(tx.call.name) < 50 THEN Len(tx.call.name) ELSE 50
       IN /\ tx.res = "Ok"
          /\ stored.disc = "DishStats"
          /\ stored.count = 0
          /\ stored.name_len = n
          /\ stored.name_data = Padded(tx.call.name, n, 50)

\* C7 witness: InitDishStats succeeded with a name longer than 50 bytes.
C7_Witness ==
    /\ tx.op = "initialize_dish_stats"
    /\ tx.res = "Ok"
    /\ Len(tx.call.name) > 50
    /\ accounts[DishStatsKey(tx.call.user, tx.call.dish)].name_data[50] # 0

\* C8: a successful SubmitReview stores the given rating and confidence_level,
\* review_len = min(byte length of review, 200) and review_data = the first
\* review_len bytes of review followed by zero bytes up to 200; a longer review
\* is truncated, never rejected (in-range inputs on a pair without a non-empty
\* review succeed whatever the length).
C8_ReviewStored ==
    tx.op = "submit_review" =>
        LET k == ReviewKey(tx.call.user, tx.call.restaurant)
            n == IF Len(tx.call.review) < 200 THEN Len(tx.call.review) ELSE 200
        IN /\ tx.res = "Ok" =>
                  /\ accounts[k].disc = "Review"
                  /\ accounts[k].rating = tx.call.rating
                  /\ accounts[k].confidence_level = tx.call.confidence_level
                  /\ accounts[k].review_len = n
                  /\ accounts[k].review_data = Padded(tx.call.review, n, 200)
           /\ (/\ tx.call.rating \in 1..5
               /\ tx.call.confidence_level \in 1..10
               /\ tx.before[k] = NoAccount)
              => tx.res = "Ok"

\* C8 witness: SubmitReview succeeded with a review longer than 200 bytes.
C8_Witness ==
    /\ tx.op = "submit_review"
    /\ tx.res = "Ok"
    /\ Len(tx.call.review) > 200
    /\ accounts[ReviewKey(tx.call.user, tx.call.restaurant)].review_data[200] # 0

\* C9: in every step, each existing UserStats record stays a UserStats record
\* whose visit_count does not decrease, and each existing DishStats record
\* stays a DishStats record whose count does not decrease.
C9_CountersMonotone ==
    [][\A k \in Keys :
          /\ accounts[k].disc = "UserStats" =>
                 /\ accounts'[k].disc = "UserStats"
                 /\ accounts'[k].visit_count >= accounts[k].visit_count
          /\ accounts[k].disc = "DishStats" =>
                 /\ accounts'[k].disc = "DishStats"
                 /\ accounts'[k].count >= accounts[k].count]_vars

\* C9 witness: an invocation ran on a ledger where a visit_count and a count
\* were already raised.
C9_Witness ==
    /\ tx # NoTx
    /\ \E k \in UserStatsKeys :
           tx.before[k].disc = "UserStats" /\ tx.before[k].visit_count > 0
    /\ \E k \in DishStatsKeys :
           tx.before[k].disc = "DishStats" /\ tx.before[k].count > 0

\* C10: once a DishStats record exists, no step changes anything of it but
\* count (name_len and name_data stay); a second InitDishStats for its
\* (user, dish) fails with AlreadyInitialized and changes nothing.
C10_DishNameFrozen ==
    [][/\ \A k \in DishStatsKeys :
             accounts[k].disc = "DishStats" =>
                 /\ accounts'[k].disc = "DishStats"
                 /\ accounts'[k].name_len = accounts[k].name_len
                 /\ accounts'[k].name_data = accounts[k].name_data
                 /\ (tx'.op = "book_table" =>
                        accounts'[k] = [accounts[k] EXCEPT !.count = accounts'[k].count])
       /\ (/\ tx'.op = "initialize_dish_stats"
           /\ accounts[DishStatsKey(tx'.call.user, tx'.call.dish)] # NoAccount)
          => /\ tx'.res = "AlreadyInitialized"
             /\ accounts' = accounts]_vars

\* C10 witness: a second InitDishStats with another name was refused on a
\* record whose count BookTable had raised.
C10_Witness ==
    /\ tx.op = "initialize_dish_stats"
    /\ tx.res = "AlreadyInitialized"
    /\ LET old == accounts[DishStatsKey(tx.call.user, tx.call.dish)] IN
       /\ old.count > 0
       /\ old.name_len # Min(Len(tx.call.name), 50)

\* C11: SubmitReview with rating in 1..5 and confidence_level in 1..10 on a
\* pair without a Review record succeeds and creates the record, and nothing
\* else; no initialization of any kind has to precede it.
C11_ReviewCreatedOnFirstUse ==
    (/\ tx.op = "submit_review"
     /\ tx.call.rating \in 1..5
     /\ tx.call.confidence_level \in 1..10
     /\ tx.before[ReviewKey(tx.call.user, tx.call.restaurant)] = NoAccount)
    => LET k == ReviewKey(tx.call.user, tx.call.restaurant) IN
       /\ tx.res = "Ok"
       /\ accounts[k].disc = "Review"
       /\ \A j \in Keys \ {k} : accounts[j] = tx.before[j]

\* C11 witness: the very first invocation on an empty ledger was a successful
\* SubmitReview.
C11_Witness ==
    /\ tx.op = "submit_review"
    /\ tx.res = "Ok"
    /\ \A k \in Keys : tx.before[k] = NoAccount
    /\ accounts[ReviewKey(tx.call.user, tx.call.restaurant)].disc = "Review"

\* C12: BookTable changes no record that is referenced only at odd positions
\* of the auxiliary list, and what the odd positions reference does not
\* matter: with UserStats present and every even position a DishStats record
\* the call succeeds.
C12_OddPositionsIgnored ==
    tx.op = "book_table" =>
        LET aux == tx.call.remaining_accounts
            usk == UserStatsKey(tx.call.user, tx.call.restaurant)
        IN /\ \A k \in Keys \ {usk} :
                  EvenRefs(aux, k) = {} => accounts[k] = tx.before[k]
           /\ (tx.before[usk] # NoAccount /\ BadRefs(aux, tx.before) = {})
              => tx.res = "Ok"

\* C12 witness: a successful BookTable whose odd position 1 references
\* something that is not an initialized DishStats record.
C12_Witness ==
    /\ tx.op = "book_table"
    /\ tx.res = "Ok"
    /\ Len(tx.call.remaining_accounts) = 3
    /\ tx.before[tx.call.remaining_accounts[2]].disc # "DishStats"

\* C12 second witness shape: the odd position references an initialized
\* DishStats record that stays as it was.
C12_WitnessUntouched ==
    /\ tx.op = "book_table"
    /\ tx.res = "Ok"
    /\ Len(tx.call.remaining_accounts) >= 2
    /\ tx.before[tx.call.remaining_accounts[2]].disc = "DishStats"
    /\ EvenRefs(tx.call.remaining_accounts, tx.call.remaining_accounts[2]) = {}

\* C13: BookTable does not check who owns an auxiliary record: with UserStats
\* present and every even position a DishStats record the call succeeds, and a
\* DishStats record of another user referenced at one even position gains 1.
C13_NoOwnershipCheck ==
    (/\ tx.op = "book_table"
     /\ tx.before[UserStatsKey(tx.call.user, tx.call.restaurant)] # NoAccount
     /\ BadRefs(tx.call.remaining_accounts, tx.before) = {})
    => /\ tx.res = "Ok"
       /\ \A k \in DishStatsKeys :
              (/\ tx.before[k].disc = "DishStats"
               /\ tx.before[k].user # tx.call.user
               /\ Cardinality(EvenRefs(tx.call.remaining_accounts, k)) = 1)
              => accounts[k].count = tx.before[k].count + 1

\* C13 witness: a successful BookTable whose position 0 references the
\* DishStats record of the other user.
C13_Witness ==
    /\ tx.op = "book_table"
    /\ tx.res = "Ok"
    /\ Len(tx.call.remaining_accounts) = 1
    /\ accounts[tx.call.remaining_accounts[1]].user # tx.call.user
    /\ accounts[tx.call.remaining_accounts[1]].count
           = tx.before[tx.call.remaining_accounts[1]].count + 1

\* C14: BookTable (with UserStats present) fails when an even position
\* references an address that holds no account (AccountDiscriminatorNotFound)
\* or an account that is not a DishStats record
\* (AccountDiscriminatorMismatch), the first such position deciding the
\* error; and no BookTable ever creates a record.
C14_MissingDishStatsFails ==
    tx.op = "book_table" =>
        LET aux == tx.call.remaining_accounts
            bads == BadRefs(aux, tx.before)
        IN /\ (tx.before[UserStatsKey(tx.call.user, tx.call.restaurant)] # NoAccount
               /\ bads # {})
              => LET first == CHOOSE i \in bads : \A j \in bads : i <= j IN
                 tx.res = IF tx.before[aux[first]] = NoAccount
                          THEN "AccountDiscriminatorNotFound"
                          ELSE "AccountDiscriminatorMismatch"
           /\ \A k \in Keys : tx.before[k] = NoAccount => accounts[k] = NoAccount

\* C14 witness: BookTable failed on a never-initialized DishStats address at
\* position 0.
C14_Witness ==
    /\ tx.op = "book_table"
    /\ tx.res = "AccountDiscriminatorNotFound"
    /\ tx.call.remaining_accounts[1] \in DishStatsKeys
    /\ accounts[tx.call.remaining_accounts[1]] = NoAccount

C18_DuplicateRefsCountTwice ==
    (/\ tx.op = "book_table"
     /\ tx.before[UserStatsKey(tx.call.user, tx.call.restaurant)] # NoAccount
     /\ BadRefs(tx.call.remaining_accounts, tx.before) = {})
    => \A k \in DishStatsKeys :
           Cardinality(EvenRefs(tx.call.remaining_accounts, k)) >= 2
           => /\ tx.res = "Ok"
              /\ accounts[k].count - tx.before[k].count
                     = Cardinality(EvenRefs(tx.call.remaining_accounts, k))

\* C18 witness: a successful BookTable with the same DishStats record at the
\* even positions 0 and 2 raised its count by 2.
C18_Witness ==
    /\ tx.op = "book_table"
    /\ tx.res = "Ok"
    /\ Len(tx.call.remaining_accounts) = 3
    /\ tx.call.remaining_accounts[1] = tx.call.remaining_accounts[3]
    /\ accounts[tx.call.remaining_accounts[1]].count
           = tx.before[tx.call.remaining_accounts[1]].count + 2

\* C16: the write-once guard engages only for a non-empty stored text. A
\* successful SubmitReview with an empty text leaves review_len = 0, and a
\* SubmitReview with valid inputs on a record whose review_len is 0 (one left
\* by an earlier empty-text submission) succeeds and overwrites rating,
\* confidence_level and text.
C16_EmptyReviewOverwritable ==
    tx.op = "submit_review" =>
        LET k == ReviewKey(tx.call.user, tx.call.restaurant)
            n == IF Len(tx.call.review) < 200 THEN Len(tx.call.review) ELSE 200
        IN /\ (tx.res = "Ok" /\ Len(tx.call.review) = 0)
              => accounts[k].review_len = 0
           /\ (/\ tx.before[k].disc = "Review"
               /\ tx.before[k].review_len = 0
               /\ tx.call.rating \in 1..5
               /\ tx.call.confidence_level \in 1..10)
              => /\ tx.res = "Ok"
                 /\ accounts[k].rating = tx.call.rating
                 /\ accounts[k].confidence_level = tx.call.confidence_level
                 /\ accounts[k].review_len = n
                 /\ accounts[k].review_data = Padded(tx.call.review, n, 200)

\* C16 witness: a record stored by an empty-text submission has been
\* overwritten with another rating, another confidence_level and a text.
C16_Witness ==
    /\ tx.op = "submit_review"
    /\ tx.res = "Ok"
    /\ LET k == ReviewKey(tx.call.user, tx.call.restaurant)
       IN /\ tx.before[k].disc = "Review"
          /\ tx.before[k].review_len = 0
          /\ tx.before[k].rating # accounts[k].rating
          /\ tx.before[k].confidence_level # accounts[k].confidence_level
          /\ accounts[k].review_len > 0

\* C17: SubmitReview checks its inputs before the write-once guard and rating
\* before confidence_level: an invalid rating gives InvalidRating even when
\* confidence_level is invalid too and even when a review with review_len > 0
\* exists; a valid rating with an invalid confidence_level gives
\* InvalidConfidenceLevel even when such a review exists.
C17_ChecksBeforeGuard ==
    tx.op = "submit_review" =>
        /\ tx.call.rating \notin 1..5 => tx.res = "InvalidRating"
        /\ (tx.call.rating \in 1..5 /\ tx.call.confidence_level \notin 1..10)
           => tx.res = "InvalidConfidenceLevel"

\* C17 witness: a submission with both inputs invalid, on a pair whose review
\* has a non-empty text, was rejected with InvalidRating.
C17_Witness ==
    /\ tx.op = "submit_review"
    /\ tx.res = "InvalidRating"
    /\ tx.call.confidence_level \notin 1..10
    /\ LET k == ReviewKey(tx.call.user, tx.call.restaurant)
       IN /\ tx.before[k].disc = "Review"
          /\ tx.before[k].review_len > 0

\* C17 witness of the second half: a valid rating with an invalid
\* confidence_level on such a pair was rejected with InvalidConfidenceLevel.
C17_WitnessConfidence ==
    /\ tx.op = "submit_review"
    /\ tx.res = "InvalidConfidenceLevel"
    /\ LET k == ReviewKey(tx.call.user, tx.call.restaurant)
       IN /\ tx.before[k].disc = "Review"
          /\ tx.before[k].review_len > 0

\* C19: in every reachable state every Review record has rating in 1..5,
\* confidence_level in 1..10 and review_len <= 200, every DishStats record has
\* name_len <= 50, and every byte of a text buffer at an index at or beyond
\* the stored length is zero.
C19_RecordsWellFormed ==
    \A k \in Keys :
        /\ accounts[k].disc = "Review" =>
               /\ accounts[k].rating \in 1..5
               /\ accounts[k].confidence_level \in 1..10
               /\ accounts[k].review_len \in 0..200
               /\ Len(accounts[k].review_data) = 200
               /\ \A i \in (accounts[k].review_len + 1)..200 :
                      accounts[k].review_data[i] = 0
        /\ accounts[k].disc = "DishStats" =>
               /\ accounts[k].name_len \in 0..50
               /\ Len(accounts[k].name_data) = 50
               /\ \A i \in (accounts[k].name_len + 1)..50 :
                      accounts[k].name_data[i] = 0

\* C19 witness: a Review stored from inputs at the upper bounds with a text
\* longer than its buffer stands next to a DishStats record stored from a
\* name longer than its buffer and one stored from a short name.
C19_Witness ==
    /\ tx.op = "submit_review"
    /\ tx.res = "Ok"
    /\ Len(tx.call.review) > 200
    /\ tx.call.rating = 5
    /\ tx.call.confidence_level = 10
    /\ accounts[ReviewKey(tx.call.user, tx.call.restaurant)].review_len = 200
    /\ \E k \in DishStatsKeys :
           accounts[k].disc = "DishStats" /\ accounts[k].name_len = 50

\* C19 witness of the zero padding: a Review and a DishStats record whose
\* texts are shorter than their buffers.
C19_WitnessShort ==
    /\ \E k \in ReviewKeys :
           /\ accounts[k].disc = "Review"
           /\ accounts[k].review_len \in 1..199
    /\ \E k \in DishStatsKeys :
           /\ accounts[k].disc = "DishStats"
           /\ accounts[k].name_len \in 1..49

\* C20: every record carries the identities of its own address: the UserStats
\* and the Review record at the address of (user, restaurant) have these as
\* their user and restaurant fields, the DishStats record at the address of
\* (user, dish) has these as its user and dish fields; as this holds in every
\* reachable state, no later instruction changes them.
C20_KeyEmbedded ==
    /\ \A u \in Users, r \in Restaurants :
           /\ accounts[UserStatsKey(u, r)].disc = "UserStats" =>
                  /\ accounts[UserStatsKey(u, r)].user = u
                  /\ accounts[UserStatsKey(u, r)].restaurant = r
           /\ accounts[ReviewKey(u, r)].disc = "Review" =>
                  /\ accounts[ReviewKey(u, r)].user = u
                  /\ accounts[ReviewKey(u, r)].restaurant = r
    /\ \A u \in Users, d \in Dishes :
           accounts[DishStatsKey(u, d)].disc = "DishStats" =>
               /\ accounts[DishStatsKey(u, d)].user = u
               /\ accounts[DishStatsKey(u, d)].dish = d
    /\ \A k \in Keys :
           accounts[k].disc \in
               {"None", IF k \in UserStatsKeys THEN "UserStats"
                        ELSE IF k \in DishStatsKeys THEN "DishStats"
                        ELSE "Review"}

\* C20 witness: the three kinds of record exist for one user and a BookTable
\* of that user has since updated the UserStats and the DishStats record.
C20_Witness ==
    /\ tx.op = "book_table"
    /\ tx.res = "Ok"
    /\ accounts[ReviewKey(tx.call.user, tx.call.restaurant)].disc = "Review"
    /\ accounts[UserStatsKey(tx.call.user, tx.call.restaurant)].visit_count >= 2
    /\ \E d \in Dishes :
           /\ accounts[DishStatsKey(tx.call.user, d)].disc = "DishStats"
           /\ accounts[DishStatsKey(tx.call.user, d)].count >= 1

====
